---- MODULE Spec2Model ----
(***************************************************************************)
(* The two BCPNN example drivers of Auryn: main() of sim_bcpnn (option     *)
(* parsing, fan-in validation, network construction, monitor wiring, the   *)
(* pre-run barrier, the kernel run, the post-run reductions, the report    *)
(* and the teardown) and main() of sim_bcpnn_1, each executed by every     *)
(* rank of an MPI job started with one command line.                       *)
(***************************************************************************)
EXTENDS Integers, Sequences, FiniteSets, TLC

\* ------------------------------------------------------------------ bounds
MaxRanks == 2
MaxNonzero == 1

\* ------------------------------------------------- constants of the source
DefaultNbInputs == 100
DefaultSize == 25
DefaultNPostSyn == 100
DefaultIpre == 5
DefaultIpost == 5
FixedIpre == 99
FixedIpost == 17
AbortIpost == 4712
\* both bounds checks aborting with one code
AbortIpreSameCode == AbortIpost
AbortIpre == 4711
ReportRank == 0
\* the reduction rooted at a rank other than the reporting one
ReduceRootOther == ReportRank + 1
ReduceRoot == 0
IntMax == 2147483647
FloatExact == 16777216

\* ------------------------------------------------ numbers as the code has them
\* An unsigned 32-bit value (NeuronID), and the magnitude of a float that holds
\* an integer, is the pair <<hi, lo>> of value hi * 2^31 + lo, 0 <= lo < 2^31.
U32(i) == IF i >= 0 THEN <<0, i>> ELSE <<1, (i + IntMax) + 1>>

MagLess(a, b) == a[1] < b[1] \/ (a[1] = b[1] /\ a[2] < b[2])

\* unsigned comparison a < b
ULess(a, b) == MagLess(a, b)

RECURSIVE UlpOf(_, _)
UlpOf(lo, u) == IF lo \div u < FloatExact THEN u ELSE UlpOf(lo, 2 * u)

\* Round a magnitude to the 24-bit significand of a float, ties to even.
Round24(m) ==
    LET lo == m[2]
        u == IF m[1] = 0 THEN UlpOf(lo, 1) ELSE 256
        rem == lo % u
        down == lo - rem
        up == 2 * rem > u \/ (2 * rem = u /\ (down \div u) % 2 = 1)
    IN  IF ~up THEN <<m[1], down>>
        ELSE IF down > IntMax - u THEN <<m[1] + 1, 0>>
        ELSE <<m[1], down + u>>

\* (float) of an int and of an unsigned int
FloatOfInt(i) ==
    IF i >= 0 THEN [neg |-> FALSE, mag |-> Round24(<<0, i>>)]
    ELSE IF i = (-IntMax) - 1 THEN [neg |-> TRUE, mag |-> <<1, 0>>]
    ELSE [neg |-> TRUE, mag |-> Round24(<<0, -i>>)]

FloatOfU32(u) == [neg |-> FALSE, mag |-> Round24(u)]

\* a > b on floats
FloatGt(a, b) ==
    IF a.neg THEN b.neg /\ MagLess(a.mag, b.mag)
    ELSE b.neg \/ MagLess(b.mag, a.mag)

\* the quotient num / den of two floats, kept as the pair
FloatDiv(num, den) == [num |-> num, den |-> den]

\* ------------------------------------------------------------------- state
VARIABLES
    prog,      \* which example's main() the job runs
    nranks,    \* number of ranks of the job
    argv,      \* the command line, and the exception the parser raises on it
    proc,      \* per rank: the locals of main(), its position, its output
    barrier,   \* ranks that have entered the pre-run MPI_Barrier
    red        \* per reduction: the ranks that contributed and the running sum

vars == <<prog, nranks, argv, proc, barrier, red>>

Ranks == 0 .. (nranks - 1)

Progs == {"sim_bcpnn", "sim_bcpnn_1"}

\* the assignments of the try block that the model follows, in source order
OptOrder == <<"with_stdp", "with_bcpnn", "nbinputs", "size", "npostsyn",
              "ipre", "ipost", "nomon">>

OptIndex(o) == CHOOSE k \in 1 .. Len(OptOrder) : OptOrder[k] = o

\* the options each program declares
Declared(p) ==
    IF p = "sim_bcpnn"
    THEN {"with_stdp", "with_bcpnn", "nbinputs", "size", "npostsyn", "ipre",
          "ipost", "nomon"}
    ELSE {"nbinputs", "size", "nomon"}

Conns == {"sp_con", "stdp_con", "bcpnn_con"}

Given(o) == argv[o] # <<>>

\* the assignment of option o was executed before any exception was thrown
Applied(o) ==
    /\ Given(o)
    /\ argv.exc = "none" \/ OptIndex(o) < argv.at

OptBool(o, dflt) == IF Applied(o) THEN argv[o][1] ELSE dflt
OptInt(o, dflt) == IF Applied(o) THEN argv[o][1] ELSE dflt

InitProc ==
    [pc |-> "parse", status |-> <<>>, errcode |-> 0, caught |-> "none",
     with_stdp |-> FALSE, with_bcpnn |-> FALSE, nomon |-> FALSE,
     nbinputs |-> U32(DefaultNbInputs), size |-> U32(DefaultSize),
     npostsyn |-> FloatOfInt(DefaultNPostSyn),
     ipre |-> IF prog = "sim_bcpnn" THEN DefaultIpre ELSE FixedIpre,
     ipost |-> IF prog = "sim_bcpnn" THEN DefaultIpost ELSE FixedIpost,
     sparseness |-> IF prog = "sim_bcpnn"
                    THEN FloatDiv(FloatOfInt(1), FloatOfInt(2))
                    ELSE FloatDiv(FloatOfInt(3), FloatOfInt(5)),
     inited |-> FALSE, freed |-> FALSE,
     pops |-> {}, cons |-> {}, mons |-> {}, uses |-> {},
     runok |-> "none",
     nsyn |-> [c \in Conns |-> <<>>], gnsyn |-> [c \in Conns |-> <<>>],
     out |-> <<>>, trace |-> <<>>]

\* the command lines the model runs
ArgvOf(flags, nomons, nbs, sizes, nps, ipres, iposts, excs) ==
    { a \in [help : BOOLEAN, exc : excs, at : 0 .. Len(OptOrder),
             with_stdp : flags, with_bcpnn : flags, nomon : nomons,
             nbinputs : nbs, size : sizes, npostsyn : nps,
             ipre : ipres, ipost : iposts] :
        /\ a.exc = "none" => a.at = 0
        /\ a.exc = "std" => a.at = 0
        /\ a.help => a.exc = "none"
        /\ a.at >= 1 => a[OptOrder[a.at]] # <<>> }

InitWith(p, n, a) ==
    /\ prog = p
    /\ nranks = n
    /\ argv = a
    /\ \A o \in DOMAIN argv \ {"help", "exc", "at"} : Given(o) => o \in Declared(prog)
    /\ proc = [r \in 0 .. (n - 1) |-> InitProc]
    /\ barrier = {}
    /\ red = [c \in Conns |-> [from |-> {}, sum |-> 0]]

Step(p, op) == [p EXCEPT !.trace = Append(@, op)]

Return(p, code) == [p EXCEPT !.pc = "done", !.status = <<code>>]

\* ---------------------------------------------------------- option parsing
AfterParse == IF prog = "sim_bcpnn" THEN "fanin" ELSE "init"

ParseOptions(r) ==
    /\ proc[r].pc = "parse"
    /\ LET parsed == [proc[r] EXCEPT
                        !.with_stdp = OptBool("with_stdp", @),
                        !.with_bcpnn = OptBool("with_bcpnn", @),
                        !.nbinputs = IF Applied("nbinputs")
                                     THEN U32(argv.nbinputs[1]) ELSE @,
                        !.size = IF Applied("size") THEN U32(argv.size[1]) ELSE @,
                        !.npostsyn = IF Applied("npostsyn")
                                     THEN FloatOfInt(argv.npostsyn[1]) ELSE @,
                        !.ipre = OptInt("ipre", @),
                        !.ipost = OptInt("ipost", @),
                        !.nomon = OptBool("nomon", @),
                        !.caught = argv.exc]
       IN proc' = [proc EXCEPT ![r] =
            IF argv.exc = "std"
            THEN Return(Step(parsed, "catch_std"), 1)
            ELSE IF argv.exc = "other"
            THEN [Step(parsed, "catch_other") EXCEPT !.pc = AfterParse]
            ELSE IF argv.help
            THEN Return(Step(proc[r], "help"), 1)
            ELSE [Step(parsed, "parsed") EXCEPT !.pc = AfterParse]]
    /\ UNCHANGED <<prog, nranks, argv, barrier, red>>

\* ------------------------------------------------------ fan-in validation
\* the fan-in compared against the wrong population
FanInViolatedWrongPop(r) == FloatGt(proc[r].npostsyn, FloatOfU32(proc[r].size))

FanInViolated(r) == FloatGt(proc[r].npostsyn, FloatOfU32(proc[r].nbinputs))

FanInCheck(r) ==
    /\ proc[r].pc = "fanin"
    /\ proc' = [proc EXCEPT ![r] =
            IF FanInViolated(r)
            THEN [Step(@, "exit") EXCEPT !.pc = "exited", !.status = <<0>>]
            ELSE [Step(@, "fanin_ok") EXCEPT !.pc = "init"]]
    /\ UNCHANGED <<prog, nranks, argv, barrier, red>>

\* ------------------------------------------------------ auryn_init, sparseness
Line(l, v) == [label |-> l, value |-> v]

Cerr(p, r, l, v) ==
    IF r = ReportRank THEN [p EXCEPT !.out = Append(@, Line(l, v))] ELSE p

AurynInit(r) ==
    /\ proc[r].pc = "init"
    /\ LET p == proc[r]
           s == FloatDiv(p.npostsyn, FloatOfU32(p.nbinputs))
       IN proc' = [proc EXCEPT ![r] =
            IF prog = "sim_bcpnn"
            THEN Cerr([Step(p, "auryn_init") EXCEPT
                         !.inited = TRUE, !.sparseness = s, !.pc = "neurons"],
                      r, "sparseness", s)
            ELSE [Step(p, "auryn_init") EXCEPT !.inited = TRUE, !.pc = "neurons"]]
    /\ UNCHANGED <<prog, nranks, argv, barrier, red>>

\* ------------------------------------------------- populations, connections
Pop(n, sz) == [name |-> n, size |-> sz]
Con(n, s) == [name |-> n, sparseness |-> s]

ConstructNetwork(r) ==
    /\ proc[r].pc = "neurons"
    /\ LET p == proc[r]
       IN proc' = [proc EXCEPT ![r] =
            IF prog = "sim_bcpnn"
            THEN [Step(p, "construct") EXCEPT
                    !.pops = {Pop("poisson", p.nbinputs), Pop("poneurons", p.size)},
                    !.cons = {Con("sp_con", p.sparseness)},
                    !.pc = "stdp"]
            ELSE [Step(p, "construct") EXCEPT
                    !.pops = {Pop("poisson", p.nbinputs), Pop("prneurons", p.nbinputs),
                              Pop("poneurons", p.size)},
                    !.cons = {Con("sp1_con", p.sparseness), Con("sp2_con", p.sparseness),
                              Con("bcpnn_con", p.sparseness)},
                    !.uses = {"bcpnn_con"},
                    !.pc = "moncheck"]]
    /\ UNCHANGED <<prog, nranks, argv, barrier, red>>

ConfigureSTDP(r) ==
    /\ proc[r].pc = "stdp"
    /\ proc' = [proc EXCEPT ![r] =
            IF proc[r].with_stdp
            THEN [Step(proc[r], "new_stdp_con") EXCEPT
                    !.cons = @ \cup {Con("stdp_con", proc[r].sparseness)},
                    !.uses = @ \cup {"stdp_con"},
                    !.pc = "bcpnn"]
            ELSE [@ EXCEPT !.pc = "bcpnn"]]
    /\ UNCHANGED <<prog, nranks, argv, barrier, red>>

ConfigureBCPNN(r) ==
    /\ proc[r].pc = "bcpnn"
    /\ proc' = [proc EXCEPT ![r] =
            IF proc[r].with_bcpnn
            THEN [Step(proc[r], "new_bcpnn_con") EXCEPT
                    !.cons = @ \cup {Con("bcpnn_con", proc[r].sparseness)},
                    !.uses = @ \cup {"bcpnn_con"},
                    !.pc = "moncheck"]
            ELSE [@ EXCEPT !.pc = "moncheck"]]
    /\ UNCHANGED <<prog, nranks, argv, barrier, red>>

\* ------------------------------------------------------------------ monitors
\* the position of main() after the monitor block
\* the barrier call left out
BeforeRunNoBarrier == "run"

BeforeRun == "barrier"

IpreOutOfRange(r) == ULess(proc[r].nbinputs, U32(proc[r].ipre))
IpostOutOfRange(r) == ULess(proc[r].size, U32(proc[r].ipost))

\* auryn_abort(code): the calling rank aborts the whole job
AurynAbort(r, code) ==
    [q \in Ranks |->
        IF q = r
        THEN [Step(proc[q], "auryn_abort") EXCEPT !.pc = "aborted", !.status = <<code>>]
        ELSE IF proc[q].status = <<>>
        THEN [proc[q] EXCEPT !.pc = "killed", !.status = <<code>>]
        ELSE proc[q]]

CheckMonitorBounds(r) ==
    /\ proc[r].pc = "moncheck"
    /\ proc' =
            IF proc[r].nomon
            THEN [proc EXCEPT ![r].pc = BeforeRun]
            ELSE IF IpreOutOfRange(r) THEN AurynAbort(r, AbortIpre)
            ELSE IF IpostOutOfRange(r) THEN AurynAbort(r, AbortIpost)
            ELSE [proc EXCEPT ![r].pc = "monitors"]
    /\ UNCHANGED <<prog, nranks, argv, barrier, red>>

Mon(n, t, i, j) == [name |-> n, target |-> t, pre |-> i, post |-> j]

\* the trace and weight monitors of sim_bcpnn are built only with a BCPNN rule
\* the with_bcpnn test around the trace monitors left out
MonitorsBcpnnUnguarded(r) == ~proc[r].nomon

MonitorsBcpnn(r) == proc[r].with_bcpnn

AttachMonitors(r) ==
    /\ proc[r].pc = "monitors"
    /\ LET p == proc[r]
           i == <<U32(p.ipre)>>
           j == <<U32(p.ipost)>>
           spikes == {Mon("smon_pr", "poisson", <<>>, <<>>),
                      Mon("smon_po", "poneurons", <<>>, <<>>)}
           traces == {Mon("zi_mon", "poisson", i, <<>>),
                      Mon("zj_mon", "poneurons", <<>>, j),
                      Mon("pj_mon", "poneurons", <<>>, j),
                      Mon("bias_mon", "poneurons", <<>>, j),
                      Mon("pimon", "bcpnn_con", i, j),
                      Mon("pijmon", "bcpnn_con", i, j),
                      Mon("wijmon", "bcpnn_con", i, j)}
       IN proc' = [proc EXCEPT ![r] =
            IF prog = "sim_bcpnn"
            THEN IF MonitorsBcpnn(r)
                 THEN Cerr([Step(p, "monitors") EXCEPT
                               !.mons = traces \cup spikes,
                               !.uses = @ \cup {"bcpnn_con"},
                               !.pc = BeforeRun],
                            r, "ipre ipost", <<p.ipre, p.ipost>>)
                 ELSE [Step(p, "monitors") EXCEPT !.mons = spikes, !.pc = BeforeRun]
            ELSE [Step(p, "monitors") EXCEPT
                    !.mons = {Mon("zi_mon", "prneurons", i, <<>>),
                              Mon("zj_mon", "poneurons", <<>>, j)},
                    !.pc = BeforeRun]]
    /\ UNCHANGED <<prog, nranks, argv, barrier, red>>

\* ------------------------------------------------------- barrier, kernel run
BarrierEnter(r) ==
    /\ proc[r].pc = "barrier"
    /\ barrier' = barrier \cup {r}
    /\ proc' = [proc EXCEPT ![r] = [Step(@, "MPI_Barrier") EXCEPT !.pc = "inbarrier"]]
    /\ UNCHANGED <<prog, nranks, argv, red>>

BarrierExit(r) ==
    /\ proc[r].pc = "inbarrier"
    /\ barrier = Ranks
    /\ proc' = [proc EXCEPT ![r] = [Step(@, "Wtime") EXCEPT !.pc = "run"]]
    /\ UNCHANGED <<prog, nranks, argv, barrier, red>>

\* only the reporting rank enters the report block
BeforeFree(r) == IF r = ReportRank THEN "report" ELSE "free"

\* the result of sys->run ignored
ErrcodeAfterRunIgnored(errcode, ok) == errcode

ErrcodeAfterRun(errcode, ok) == IF ~ok THEN 1 ELSE errcode

RunKernel(r) ==
    /\ proc[r].pc = "run"
    /\ \E ok \in BOOLEAN :
         proc' = [proc EXCEPT ![r] = [Step(@, "run") EXCEPT
                    !.runok = IF ok THEN "ok" ELSE "failed",
                    !.errcode = ErrcodeAfterRun(@, ok),
                    !.pc = IF prog = "sim_bcpnn" THEN "red_sp" ELSE BeforeFree(r)]]
    /\ UNCHANGED <<prog, nranks, argv, barrier, red>>

\* ------------------------------------------------------ post-run reductions
\* get_nonzero() of connection c, then MPI_Reduce(MPI_SUM) to the root: a rank
\* other than the root returns once it has contributed, the root waits.
Contribute(r, c, wait, next) ==
    \E v \in 1 .. MaxNonzero :
        /\ red' = [red EXCEPT ![c] = [from |-> @.from \cup {r}, sum |-> @.sum + v]]
        /\ proc' = [proc EXCEPT ![r] = [Step(@, c) EXCEPT
                      !.nsyn[c] = <<v>>,
                      !.uses = @ \cup {c},
                      !.pc = IF r = ReduceRoot THEN wait ELSE next]]

\* the STDP reduction entered by the reporting rank only
ReducesStdpRootOnly(r) == proc[r].with_stdp /\ r = ReduceRoot

ReducesStdp(r) == proc[r].with_stdp
ReducesBcpnn(r) == proc[r].with_bcpnn

ReduceSp(r) ==
    /\ proc[r].pc = "red_sp"
    /\ Contribute(r, "sp_con", "wait_sp", "red_stdp")
    /\ UNCHANGED <<prog, nranks, argv, barrier>>

ReduceStdp(r) ==
    /\ proc[r].pc = "red_stdp"
    /\ IF ReducesStdp(r)
       THEN Contribute(r, "stdp_con", "wait_stdp", "red_bcpnn")
       ELSE /\ proc' = [proc EXCEPT ![r].pc = "red_bcpnn"]
            /\ red' = red
    /\ UNCHANGED <<prog, nranks, argv, barrier>>

ReduceBcpnn(r) ==
    /\ proc[r].pc = "red_bcpnn"
    /\ IF ReducesBcpnn(r)
       THEN Contribute(r, "bcpnn_con", "wait_bcpnn", BeforeFree(r))
       ELSE /\ proc' = [proc EXCEPT ![r].pc = BeforeFree(r)]
            /\ red' = red
    /\ UNCHANGED <<prog, nranks, argv, barrier>>

WaitPc(c) ==
    IF c = "sp_con" THEN "wait_sp" ELSE IF c = "stdp_con" THEN "wait_stdp" ELSE "wait_bcpnn"

AfterReduce(r, c) ==
    IF c = "sp_con" THEN "red_stdp"
    ELSE IF c = "stdp_con" THEN "red_bcpnn" ELSE BeforeFree(r)

\* the root's MPI_Reduce returns with the sum once every rank has contributed
ReduceComplete(c) == red[c].from = Ranks

ReduceWait(r) ==
    /\ \E c \in Conns :
        /\ proc[r].pc = WaitPc(c)
        /\ ReduceComplete(c)
        /\ proc' = [proc EXCEPT ![r] = [@ EXCEPT
                      !.gnsyn[c] = <<red[c].sum>>,
                      !.pc = AfterReduce(r, c)]]
    /\ UNCHANGED <<prog, nranks, argv, barrier, red>>

\* --------------------------------------------------------- report, teardown
ReportsStdp(r) == proc[r].with_stdp
ReportsBcpnn(r) == proc[r].with_bcpnn

CountLabel(c) ==
    IF c = "sp_con" THEN "N:o non-plastic weights"
    ELSE IF c = "stdp_con" THEN "N:o stdp weights" ELSE "N:o bcpnn weights"

Report(r) ==
    /\ proc[r].pc = "report"
    /\ LET p0 == proc[r]
           p1 == Cerr(p0, r, "Execution time", <<>>)
           p2 == IF prog = "sim_bcpnn"
                 THEN Cerr(p1, r, CountLabel("sp_con"), p0.gnsyn["sp_con"]) ELSE p1
           p3 == IF prog = "sim_bcpnn" /\ ReportsStdp(r)
                 THEN Cerr(p2, r, CountLabel("stdp_con"), p0.gnsyn["stdp_con"]) ELSE p2
           p4 == IF prog = "sim_bcpnn" /\ ReportsBcpnn(r)
                 THEN Cerr(p3, r, CountLabel("bcpnn_con"), p0.gnsyn["bcpnn_con"]) ELSE p3
       IN proc' = [proc EXCEPT ![r] =
            [Step(p4, "report") EXCEPT !.pc = "free"]]
    /\ UNCHANGED <<prog, nranks, argv, barrier, red>>

Free(r) ==
    /\ proc[r].pc = "free"
    /\ proc' = [proc EXCEPT ![r] =
            Return([Step(proc[r], "auryn_free") EXCEPT !.freed = TRUE], proc[r].errcode)]
    /\ UNCHANGED <<prog, nranks, argv, barrier, red>>

\* ------------------------------------------------------------ specification
RankStep(r) ==
    \/ ParseOptions(r)
    \/ FanInCheck(r)
    \/ AurynInit(r)
    \/ ConstructNetwork(r)
    \/ ConfigureSTDP(r)
    \/ ConfigureBCPNN(r)
    \/ CheckMonitorBounds(r)
    \/ AttachMonitors(r)
    \/ BarrierEnter(r)
    \/ BarrierExit(r)
    \/ RunKernel(r)
    \/ ReduceSp(r)
    \/ ReduceStdp(r)
    \/ ReduceBcpnn(r)
    \/ ReduceWait(r)
    \/ Report(r)
    \/ Free(r)

Next == \E r \in Ranks : RankStep(r)

Absent == {<<>>}
Flag == {<<>>, <<TRUE>>}

\* one rank, the option values around every check of each program
ArgvWide ==
    ArgvOf(Flag, Flag, {<<>>, <<-1>>, <<0>>, <<3>>, <<5>>, <<16777216>>}, {<<>>, <<5>>},
           {<<>>, <<-2>>, <<0>>, <<3>>, <<150>>, <<16777217>>},
           {<<>>, <<-1>>, <<3>>, <<6>>}, {<<>>, <<-1>>, <<6>>},
           {"none", "std", "other"})

ArgvWide1 ==
    ArgvOf(Flag, Flag, {<<>>, <<98>>, <<99>>}, {<<>>, <<16>>, <<17>>}, Absent, Absent, Absent,
           {"none", "std", "other"})

Init ==
    \/ \E a \in ArgvWide : InitWith("sim_bcpnn", 1, a)
    \/ \E a \in ArgvWide1 : InitWith("sim_bcpnn_1", 1, a)

Spec == Init /\ [][Next]_vars

\* several ranks, the rule flags, and a command line per fatal check
ArgvMPI ==
    ArgvOf(Flag, Absent, {<<>>, <<3>>}, {<<>>, <<4>>}, Absent, Absent, Absent,
           {"none"})

InitMPI ==
    \E p \in Progs : \E n \in 1 .. MaxRanks : \E a \in ArgvMPI : InitWith(p, n, a)

SpecMPI == InitMPI /\ [][Next]_vars

\* every rank that can take a step eventually takes one
FairSpecMPI == SpecMPI /\ \A r \in 0 .. (MaxRanks - 1) : WF_vars(r \in Ranks /\ RankStep(r))

\* ================================================================ properties
Terminated(r) == proc[r].status # <<>>

Did(r, op) == \E i \in 1 .. Len(proc[r].trace) : proc[r].trace[i] = op

LastOp(r) == proc[r].trace[Len(proc[r].trace)]

ConNames(r) == {c.name : c \in proc[r].cons}

Built(r) ==
    proc[r].inited \/ proc[r].pops # {} \/ proc[r].cons # {} \/ proc[r].mons # {}
        \/ proc[r].runok # "none"

NPostSynExceeds(r) == FloatGt(proc[r].npostsyn, FloatOfU32(proc[r].nbinputs))

RECURSIVE SumTo(_, _)
SumTo(c, n) ==
    IF n = 0 THEN 0
    ELSE SumTo(c, n - 1)
            + (IF proc[n - 1].nsyn[c] = <<>> THEN 0 ELSE proc[n - 1].nsyn[c][1])

\* the sum of the local get_nonzero() values of all ranks for connection c
SumNsyn(c) == SumTo(c, nranks)

AllContributed(c) == \A r \in Ranks : proc[r].nsyn[c] # <<>>

CountLines(r, c) ==
    {i \in 1 .. Len(proc[r].out) : proc[r].out[i].label = CountLabel(c)}

Thm_C3 ==
    \A r \in Ranks :
        (proc[r].pc = "run" \/ proc[r].runok # "none") =>
            /\ \A q \in Ranks : Did(q, "MPI_Barrier")
            /\ \A i \in 1 .. Len(proc[r].trace) :
                /\ proc[r].trace[i] = "run" =>
                        i >= 3 /\ proc[r].trace[i - 1] = "Wtime"
                               /\ proc[r].trace[i - 2] = "MPI_Barrier"
            /\ (proc[r].pc = "run") =>
                    Len(proc[r].trace) >= 2 /\ LastOp(r) = "Wtime"
                        /\ proc[r].trace[Len(proc[r].trace) - 1] = "MPI_Barrier"

Wit_C3 ==
    /\ nranks >= 2
    /\ \E r \in Ranks : proc[r].runok # "none"
    /\ \E q \in Ranks : proc[q].pc = "inbarrier"

PrePop == IF prog = "sim_bcpnn" THEN "poisson" ELSE "prneurons"

\* C4: every monitor bound to a unit index is bound to an index strictly below
\* the size of the population it indexes.
Cex_C4 ==
    \A r \in Ranks : \A m \in proc[r].mons :
        /\ m.pre # <<>> => ULess(m.pre[1], proc[r].nbinputs)
        /\ m.post # <<>> => ULess(m.post[1], proc[r].size)

OnlyGiven(opts) ==
    /\ ~argv.help /\ argv.exc = "none"
    /\ \A o \in DOMAIN argv \ {"help", "exc", "at"} : Given(o) <=> o \in opts

\* C5 as stated: ipre = 5 (its default), nbinputs = 3, monitoring on, all else
\* default: the run ends with abort code 4711.
Cex_C5 ==
    (prog = "sim_bcpnn" /\ OnlyGiven({"nbinputs"}) /\ argv.nbinputs = <<3>>) =>
        \A r \in Ranks :
            Terminated(r) => proc[r].status = <<4711>> /\ LastOp(r) = "auryn_abort"

\* C5 amended: with npostsyn = 3 as well, so that the fan-in check passes, the
\* run ends in auryn_abort with code 4711, which is none of 4712, 0 and 1, and
\* no monitor has been constructed.
Thm_C5 ==
    (/\ prog = "sim_bcpnn"
     /\ OnlyGiven({"nbinputs", "npostsyn"})
     /\ argv.nbinputs = <<3>> /\ argv.npostsyn = <<3>>) =>
        \A r \in Ranks :
            /\ proc[r].pc \notin {"monitors", "barrier", "inbarrier", "run", "done",
                                  "exited"}
            /\ proc[r].mons = {}
            /\ Terminated(r) =>
                /\ proc[r].status = <<4711>>
                /\ proc[r].status[1] \notin {4712, 0, 1}
                /\ LastOp(r) = "auryn_abort"

Wit_C5 ==
    /\ prog = "sim_bcpnn"
    /\ OnlyGiven({"nbinputs", "npostsyn"})
    /\ argv.nbinputs = <<3>> /\ argv.npostsyn = <<3>>
    /\ \E r \in Ranks : proc[r].pc = "aborted" /\ proc[r].ipre = 5

RECURSIVE After(_, _)
\* the operations of t that follow its first op
After(t, op) ==
    IF t = <<>> THEN <<>> ELSE IF Head(t) = op THEN Tail(t) ELSE After(Tail(t), op)

Opt(b, op) == IF b THEN <<op>> ELSE <<>>

\* the post-run steps of rank r as the flags alone determine them
PostRunSteps(r) ==
    (IF prog = "sim_bcpnn"
     THEN <<"sp_con">> \o Opt(proc[r].with_stdp, "stdp_con")
            \o Opt(proc[r].with_bcpnn, "bcpnn_con")
     ELSE <<>>)
        \o Opt(r = 0, "report") \o <<"auryn_free">>

\* C6: a rank that ran the kernel and returned has status 0 if sys->run
\* succeeded and 1 if it failed, and in both cases it went through the same
\* reductions, the rank-0 report and auryn_free.
Thm_C6 ==
    \A r \in Ranks :
        (proc[r].pc = "done" /\ proc[r].runok # "none") =>
            /\ proc[r].status = IF proc[r].runok = "ok" THEN <<0>> ELSE <<1>>
            /\ After(proc[r].trace, "run") = PostRunSteps(r)
            /\ proc[r].freed

Wit_C6 ==
    /\ nranks >= 2
    /\ \E r \in Ranks :
        proc[r].pc = "done" /\ proc[r].runok = "failed" /\ proc[r].status = <<1>>
    /\ \E r \in Ranks :
        proc[r].pc = "done" /\ proc[r].runok = "ok" /\ proc[r].status = <<0>>

\* C7: a rank that caught an exception while parsing its options never
\* initialises the simulator, builds nothing, never runs the kernel and never
\* returns status 0.
Cex_C7 ==
    \A r \in Ranks :
        proc[r].caught # "none" =>
            /\ ~Built(r)
            /\ proc[r].pc = "done" => proc[r].status # <<0>>

InUnitInterval(s) ==
    /\ ~s.num.neg
    /\ s.num.mag # <<0, 0>>
    /\ ~FloatGt(s.num, s.den)

\* C8: every connection of sim_bcpnn is constructed with the sparseness
\* npostsyn / nbinputs, and that quotient lies in (0, 1].
Cex_C8 ==
    prog = "sim_bcpnn" =>
        \A r \in Ranks : \A c \in proc[r].cons :
            /\ c.sparseness = FloatDiv(proc[r].npostsyn, FloatOfU32(proc[r].nbinputs))
            /\ InUnitInterval(c.sparseness)

\* C9: a rank uses stdp_con or bcpnn_con (setters, weight monitors,
\* get_nonzero) only after constructing it, and reports a reduced count only
\* after the reduction that sets it.
Thm_C9 ==
    \A r \in Ranks :
        /\ proc[r].uses \subseteq ConNames(r)
        /\ \A m \in proc[r].mons : m.target \in Conns => m.target \in ConNames(r)
        /\ \A c \in Conns : CountLines(r, c) # {} => proc[r].gnsyn[c] # <<>>

Wit_C9 ==
    \E r \in Ranks :
        /\ proc[r].pc = "done"
        /\ {"stdp_con", "bcpnn_con"} \subseteq proc[r].uses
        /\ \E m \in proc[r].mons : m.target = "bcpnn_con"
        /\ CountLines(r, "stdp_con") # {} /\ CountLines(r, "bcpnn_con") # {}

\* the collective operations a rank has issued, in order
RECURSIVE Collectives(_)
Collectives(t) ==
    IF t = <<>> THEN <<>>
    ELSE IF Head(t) \in {"MPI_Barrier"} \cup Conns
    THEN <<Head(t)>> \o Collectives(Tail(t))
    ELSE Collectives(Tail(t))

AllReturned ==
    \A r \in Ranks :
        /\ proc[r].pc = "done" /\ proc[r].freed
        /\ Collectives(proc[r].trace) = Collectives(proc[0].trace)
        /\ Collectives(proc[r].trace) =
                <<"MPI_Barrier">> \o
                    (IF prog = "sim_bcpnn"
                     THEN <<"sp_con">> \o Opt(proc[r].with_stdp, "stdp_con")
                            \o Opt(proc[r].with_bcpnn, "bcpnn_con")
                     ELSE <<>>)

\* C10: once a rank has reached the pre-run barrier, every rank eventually
\* returns after auryn_free, all having issued the same collectives: the
\* barrier, the non-plastic reduction, and the STDP and BCPNN reductions
\* exactly when their flag is set.
Thm_C10 == (\E r \in Ranks : proc[r].pc = "inbarrier") ~> AllReturned

Wit_C10 ==
    /\ nranks >= 2
    /\ AllReturned
    /\ proc[0].with_stdp /\ ~proc[0].with_bcpnn

====
